---- MODULE Spec2Model ----
(***************************************************************************)
(* Model of mergeifc.py: merge of IFC files with colour priority of the    *)
(* first (base) file.  One run of the script is one behaviour: the command *)
(* line is chosen in Init, every entity copy is one step.                  *)
(***************************************************************************)
EXTENDS Integers, Sequences, FiniteSets, TLC

\* ---------------------------------------------------------------- bounds
MaxSecondary == 2      \* at most this many secondary files on the command line
MaxFailures == 1       \* at most this many failing merged_model.add calls per run

\* ------------------------------------------------------- names and keys
\* A name is a sequence of one-character strings; <<>> is None / "".
UpperToLower ==
  ("A" :> "a") @@ ("C" :> "c") @@ ("D" :> "d") @@ ("E" :> "e") @@
  ("M" :> "m") @@ ("N" :> "n") @@ ("O" :> "o") @@ ("P" :> "p") @@
  ("S" :> "s") @@ ("T" :> "t") @@ ("U" :> "u")

\* str.lower(), character by character
lower(s) ==
  [n \in 1..Len(s) |-> IF s[n] \in DOMAIN UpperToLower THEN UpperToLower[s[n]] ELSE s[n]]

Digits == <<"0", "1", "2", "3", "4", "5", "6", "7", "8", "9">>

\* decimal formatting of an identifier inside the f-string
RECURSIVE IdStr(_)
IdStr(n) == IF n < 10 THEN <<Digits[n + 1]>>
            ELSE IdStr(n \div 10) \o <<Digits[(n % 10) + 1]>>

\* f"unnamed_{entity.id()}"
Placeholder(e) == <<"u", "n", "n", "a", "m", "e", "d", "_">> \o IdStr(e.id)

\* (variant: the name is used as it is written)
NameKeyCaseSensitive(e) == IF e.name # <<>> THEN e.name ELSE Placeholder(e)

\* (X.Name.lower() if X.Name else f"unnamed_{X.id()}")
NameKey(e) == IF e.name # <<>> THEN lower(e.name) ELSE Placeholder(e)

\* ----------------------------------------------------- the IFC entities
\* Entity types of the schema that the script distinguishes, with the
\* schema's subtype relation (by_type returns subtypes, is_a() the exact type).
Supertype ==
  ("IfcAnnotationOccurrence" :> "IfcStyledItem") @@
  ("IfcPresentationLayerWithStyle" :> "IfcPresentationLayerAssignment")

IsA(t, wanted) == t = wanted \/ (t \in DOMAIN Supertype /\ Supertype[t] = wanted)

Ent(id, type, name, refs) == [id |-> id, type |-> type, name |-> name, refs |-> refs]

\* The files on disk: a model is the sequence of its entities in iteration order.
FileA == <<
  Ent(1, "IfcColourRgb", <<>>, {}),
  Ent(2, "IfcSurfaceStyle", <<"P", "a">>, {1}),
  Ent(3, "IfcPresentationStyleAssignment", <<>>, {2}),
  Ent(4, "IfcStyledItem", <<>>, {3}),
  Ent(5, "IfcMaterial", <<"C", "o">>, {}),
  Ent(6, "IfcWall", <<"W">>, {}) >>

FileB == <<
  Ent(1, "IfcColourRgb", <<>>, {}),
  Ent(2, "IfcMaterial", <<"C", "O">>, {}),
  Ent(3, "IfcMaterial", <<>>, {}),
  Ent(4, "IfcWall", <<>>, {}),
  Ent(5, "IfcRelAssociatesMaterial", <<>>, {2, 4}),
  Ent(6, "IfcPresentationLayerAssignment", <<"L">>, {4}),
  Ent(7, "IfcMaterialLayer", <<>>, {3}) >>

FileC == <<
  Ent(1, "IfcSurfaceStyle", <<>>, {2}),
  Ent(2, "IfcColourRgb", <<>>, {}),
  Ent(3, "IfcMaterial", <<>>, {}),
  Ent(4, "IfcAnnotationOccurrence", <<>>, {5}),
  Ent(5, "IfcPresentationStyleAssignment", <<>>, {1}),
  Ent(6, "IfcMaterial", <<"U", "n", "n", "a", "m", "e", "d", "_", "3">>, {}),
  Ent(7, "IfcPresentationLayerAssignment", <<>>, {}) >>

Disk == ("a.ifc" :> FileA) @@ ("b.ifc" :> FileB) @@ ("c.ifc" :> FileC)

Paths == {"a.ifc", "b.ifc", "c.ifc", "missing.ifc", "corrupt.ifc"}

\* os.path.exists(path)
exists(p) == p # "missing.ifc"

\* ifcopenshell.open(path) succeeds
Openable(p) == p \in DOMAIN Disk

\* model.by_type(t): the entities of type t or of a subtype, in model order
by_type(model, t) == SelectSeq(model, LAMBDA e : IsA(e.type, t))

EntityOf(model, id) == CHOOSE e \in {model[n] : n \in 1..Len(model)} : e.id = id

\* the entities an entity requires, transitively (itself included)
RECURSIVE Closure(_, _)
Closure(model, ids) ==
  LET more == ids \cup UNION {EntityOf(model, id).refs : id \in ids}
  IN IF more = ids THEN ids ELSE Closure(model, more)

\* merged_model.add(entity): transplants the entity of the model loaded as the
\* n-th input file together with the entities it references that are not yet
\* there; an instance already transplanted is not transplanted again.
\* (variant: the transplant rebuilds the output model from the new entity)
addReplacing(m, n, model, e) == {<<n, id>> : id \in Closure(model, {e.id})}

add(m, n, model, e) == m \cup {<<n, id>> : id \in Closure(model, {e.id})}

\* (variant: the key is recorded before add() is called)
RecordAlways(known, key, ok) == known \cup {key}

\* a known set after an attempt: the key is recorded after add() returned
Record(known, key, ok) == IF ok THEN known \cup {key} ELSE known

\* the type list of the final sweep, compared with entity.is_a()
HandledTypes == {"IfcColourRgb", "IfcPresentationStyleAssignment", "IfcSurfaceStyle",
                 "IfcMaterial", "IfcStyledItem", "IfcRelAssociatesMaterial",
                 "IfcPresentationLayerAssignment"}

SweepSkips(e) == e.type \in HandledTypes

\* does an except clause catch an exception?
Catches(clause, exc) ==
  \/ clause = "bare"
  \/ clause = "Exception" /\ exc # "SystemExit"

\* -------------------------------------------------------------- state
VARIABLES
  mode,                       \* shape of sys.argv: "merge", "analyze", "usage"
  input_files,                \* the input paths, base first
  pc,                         \* position in the script
  cur,                        \* position in input_files of the file being processed
  pos,                        \* position in the loop of the current pass
  merged_model,               \* output model: <<input position, id>> of each copy
  known_materials,
  known_surface_styles,
  known_styled_items,
  known_colours,
  known_presentation_styles,
  log,                        \* the calls made to the model library, in order
  known_history,              \* the known sets at the end of each loop iteration
  output_written,             \* the output file exists
  exit_status                 \* -1 while running

known == <<known_materials, known_surface_styles, known_styled_items,
           known_colours, known_presentation_styles>>

inputs == <<mode, input_files>>

vars == <<mode, input_files, pc, cur, pos, merged_model,
          known_materials, known_surface_styles, known_styled_items,
          known_colours, known_presentation_styles, log, known_history,
          output_written, exit_status>>

Call(n, id, step, ok) == [file |-> n, id |-> id, step |-> step, ok |-> ok]

Failures == Cardinality({n \in 1..Len(log) : log[n].step \notin {"open", "write", "analyze"}
                                             /\ ~log[n].ok})

\* outcomes of one merged_model.add call
CopyOutcomes == IF Failures < MaxFailures THEN {TRUE, FALSE} ELSE {TRUE}

current_model == Disk[input_files[cur]]

SeqsUpTo(S, lo, hi) == UNION {[1..n -> S] : n \in lo..hi}

Init ==
  /\ mode \in {"merge", "analyze", "usage"}
  /\ input_files \in IF mode = "merge" THEN SeqsUpTo(Paths, 1, 1 + MaxSecondary)
                     ELSE IF mode = "analyze" THEN SeqsUpTo(Paths, 1, 1)
                     ELSE {<<>>}
  /\ pc = "main"
  /\ cur = 1
  /\ pos = 1
  /\ merged_model = {}
  /\ known_materials = {}
  /\ known_surface_styles = {}
  /\ known_styled_items = {}
  /\ known_colours = {}
  /\ known_presentation_styles = {}
  /\ log = <<>>
  /\ known_history = <<>>
  /\ output_written = FALSE
  /\ exit_status = -1

\* ------------------------------------------------------------ __main__
\* the dispatch on sys.argv
Main ==
  /\ pc = "main"
  /\ \/ /\ mode = "analyze"
        /\ pc' = "analyze"
        /\ UNCHANGED exit_status
     \/ /\ mode = "usage"
        /\ pc' = "done"
        /\ exit_status' = 1
     \/ /\ mode = "merge"
        /\ pc' = "source_analysis"
        /\ UNCHANGED exit_status
  /\ UNCHANGED <<inputs, cur, pos, merged_model, known, log, known_history, output_written>>

\* (variant: without the try block a failing open ends the process)
validate_ifc_colorsRaises ==
  /\ pc \in {"analyze", "source_analysis", "result_analysis"}
  /\ LET ok == IF pc = "result_analysis" THEN output_written ELSE Openable(input_files[1])
     IN /\ log' = Append(log, Call(0, 0, "analyze", ok))
        /\ pc' = IF ~ok THEN "crash" ELSE IF pc = "source_analysis" THEN "merge" ELSE "done"
        /\ exit_status' = IF ~ok THEN 1 ELSE IF pc = "source_analysis" THEN exit_status ELSE 0
  /\ UNCHANGED <<inputs, cur, pos, merged_model, known, known_history, output_written>>

\* validate_ifc_colors(path): opens and reports; every failure is caught
validate_ifc_colors ==
  /\ pc \in {"analyze", "source_analysis", "result_analysis"}
  /\ LET ok == IF pc = "result_analysis" THEN output_written ELSE Openable(input_files[1])
     IN log' = Append(log, Call(0, 0, "analyze", ok))
  /\ pc' = IF pc = "source_analysis" THEN "merge" ELSE "done"
  /\ exit_status' = IF pc = "source_analysis" THEN exit_status ELSE 0
  /\ UNCHANGED <<inputs, cur, pos, merged_model, known, known_history, output_written>>

\* ------------------------------------------------------------ base import
\* (variant: the function returns instead of exiting)
BaseMissingReturns ==
  /\ pc = "merge"
  /\ input_files # <<>>
  /\ ~exists(input_files[1])
  /\ pc' = "result_analysis"
  /\ UNCHANGED <<inputs, cur, pos, merged_model, known, log, known_history,
                 output_written, exit_status>>

\* the base path does not exist: sys.exit(1) inside the try block
BaseMissing ==
  /\ pc = "merge"
  /\ input_files # <<>>
  /\ ~exists(input_files[1])
  /\ pc' = "done"
  /\ exit_status' = 1     \* SystemExit(1) passes "except Exception", whose body exits with 1 too
  /\ UNCHANGED <<inputs, cur, pos, merged_model, known, log, known_history, output_written>>

\* ifcopenshell.open(base) raises: the handler exits with status 1
BaseOpenFail ==
  /\ pc = "merge"
  /\ input_files # <<>>
  /\ exists(input_files[1])
  /\ ~Openable(input_files[1])
  /\ log' = Append(log, Call(1, 0, "open", FALSE))
  /\ pc' = IF Catches("Exception", "RuntimeError") THEN "done" ELSE "crash"
  /\ exit_status' = 1
  /\ UNCHANGED <<inputs, cur, pos, merged_model, known, known_history, output_written>>

BaseOpen ==
  /\ pc = "merge"
  /\ input_files # <<>>
  /\ exists(input_files[1])
  /\ Openable(input_files[1])
  /\ log' = Append(log, Call(1, 0, "open", TRUE))
  /\ pc' = "base"
  /\ cur' = 1
  /\ pos' = 1
  /\ UNCHANGED <<inputs, merged_model, known, known_history, output_written, exit_status>>

\* for entity in base_model: merged_model.add(entity), failure logged and skipped
CopyBase ==
  /\ pc = "base"
  /\ pos <= Len(current_model)
  /\ LET entity == current_model[pos] IN
     \E ok \in CopyOutcomes :
       /\ merged_model' = IF ok THEN add(merged_model, 1, current_model, entity)
                          ELSE merged_model
       /\ log' = Append(log, Call(1, entity.id, "base", ok))
  /\ pos' = pos + 1
  /\ UNCHANGED <<inputs, pc, cur, known, known_history, output_written, exit_status>>

\* (variant: the key policy of the passes, placeholder included, seeds the set)
SeedKeys(model, t) ==
  {NameKey(model[n]) : n \in {k \in 1..Len(model) : IsA(model[k].type, t)}}

\* {m.Name.lower() for m in base_model.by_type(t) if m.Name}
SeedNames(model, t) ==
  {lower(model[n].name) : n \in {k \in 1..Len(model) : IsA(model[k].type, t)
                                                       /\ model[k].name # <<>>}}

\* {x.id() for x in base_model.by_type(t)}
SeedIds(model, t) == {model[n].id : n \in {k \in 1..Len(model) : IsA(model[k].type, t)}}

\* the five known sets are built from the base model
SeedKnown ==
  /\ pc = "base"
  /\ pos > Len(current_model)
  /\ known_materials' = SeedNames(current_model, "IfcMaterial")
  /\ known_surface_styles' = SeedNames(current_model, "IfcSurfaceStyle")
  /\ known_styled_items' = SeedIds(current_model, "IfcStyledItem")
  /\ known_colours' = SeedIds(current_model, "IfcColourRgb")
  /\ known_presentation_styles' = SeedIds(current_model, "IfcPresentationStyleAssignment")
  /\ pc' = "file"
  /\ cur' = 2
  /\ pos' = 1
  /\ UNCHANGED <<inputs, merged_model, log, known_history, output_written, exit_status>>

\* ------------------------------------------------------- secondary files
\* for i, file_path in enumerate(input_files[1:], 1): the list is exhausted
LoopEnd ==
  /\ pc = "file"
  /\ cur > Len(input_files)
  /\ pc' = "write"
  /\ UNCHANGED <<inputs, cur, pos, merged_model, known, log, known_history,
                 output_written, exit_status>>

\* the path does not exist: continue
SkipMissing ==
  /\ pc = "file"
  /\ cur <= Len(input_files)
  /\ ~exists(input_files[cur])
  /\ cur' = cur + 1
  /\ known_history' = Append(known_history, known)
  /\ UNCHANGED <<inputs, pc, pos, merged_model, known, log, output_written, exit_status>>

\* (variant: the try block encloses the loop, so the failure ends the loop)
OpenFailEndsLoop ==
  /\ pc = "file"
  /\ cur <= Len(input_files)
  /\ exists(input_files[cur])
  /\ ~Openable(input_files[cur])
  /\ log' = Append(log, Call(cur, 0, "open", FALSE))
  /\ pc' = "write"
  /\ cur' = cur + 1
  /\ known_history' = Append(known_history, known)
  /\ UNCHANGED <<inputs, pos, merged_model, known, output_written, exit_status>>

\* ifcopenshell.open raises inside the file's try block: the file is skipped
OpenFail ==
  /\ pc = "file"
  /\ cur <= Len(input_files)
  /\ exists(input_files[cur])
  /\ ~Openable(input_files[cur])
  /\ log' = Append(log, Call(cur, 0, "open", FALSE))
  /\ pc' = IF Catches("Exception", "RuntimeError") THEN "file" ELSE "crash"
  /\ cur' = cur + 1
  /\ known_history' = Append(known_history, known)
  /\ UNCHANGED <<inputs, pos, merged_model, known, output_written, exit_status>>

OpenFile ==
  /\ pc = "file"
  /\ cur <= Len(input_files)
  /\ exists(input_files[cur])
  /\ Openable(input_files[cur])
  /\ log' = Append(log, Call(cur, 0, "open", TRUE))
  /\ pc' = "colours"
  /\ pos' = 1
  /\ UNCHANGED <<inputs, cur, merged_model, known, known_history, output_written, exit_status>>

\* ------------------------------------------------- the seven passes
Passes == <<"colours", "presentation_styles", "surface_styles", "materials",
            "styled_items", "material_relations", "layers", "sweep">>

PassType ==
  ("colours" :> "IfcColourRgb") @@
  ("presentation_styles" :> "IfcPresentationStyleAssignment") @@
  ("surface_styles" :> "IfcSurfaceStyle") @@
  ("materials" :> "IfcMaterial") @@
  ("styled_items" :> "IfcStyledItem") @@
  ("material_relations" :> "IfcRelAssociatesMaterial") @@
  ("layers" :> "IfcPresentationLayerAssignment")

\* the sequence a pass iterates over
PassList(model, p) == IF p = "sweep" THEN model ELSE by_type(model, PassType[p])

InPass(p) == pc = p /\ pos <= Len(PassList(current_model, p))

\* 1. colours: copy if the id is not known, record the id on success
CopyColour ==
  /\ InPass("colours")
  /\ LET colour == PassList(current_model, "colours")[pos] IN
     IF colour.id \notin known_colours
     THEN \E ok \in CopyOutcomes :
            /\ merged_model' = IF ok THEN add(merged_model, cur, current_model, colour)
                               ELSE merged_model
            /\ known_colours' = Record(known_colours, colour.id, ok)
            /\ log' = Append(log, Call(cur, colour.id, "colours", ok))
     ELSE UNCHANGED <<merged_model, known_colours, log>>
  /\ pos' = pos + 1
  /\ UNCHANGED <<inputs, pc, cur, known_materials, known_surface_styles, known_styled_items,
                 known_presentation_styles, known_history, output_written, exit_status>>

\* 2. presentation-style assignments
CopyPresentationStyle ==
  /\ InPass("presentation_styles")
  /\ LET style == PassList(current_model, "presentation_styles")[pos] IN
     IF style.id \notin known_presentation_styles
     THEN \E ok \in CopyOutcomes :
            /\ merged_model' = IF ok THEN add(merged_model, cur, current_model, style)
                               ELSE merged_model
            /\ known_presentation_styles' = Record(known_presentation_styles, style.id, ok)
            /\ log' = Append(log, Call(cur, style.id, "presentation_styles", ok))
     ELSE UNCHANGED <<merged_model, known_presentation_styles, log>>
  /\ pos' = pos + 1
  /\ UNCHANGED <<inputs, pc, cur, known_materials, known_surface_styles, known_styled_items,
                 known_colours, known_history, output_written, exit_status>>

\* 3. surface styles, keyed by lower-cased name or placeholder
CopySurfaceStyle ==
  /\ InPass("surface_styles")
  /\ LET surface_style == PassList(current_model, "surface_styles")[pos]
         style_name == NameKey(surface_style) IN
     IF style_name \notin known_surface_styles
     THEN \E ok \in CopyOutcomes :
            /\ merged_model' = IF ok THEN add(merged_model, cur, current_model, surface_style)
                               ELSE merged_model
            /\ known_surface_styles' = Record(known_surface_styles, style_name, ok)
            /\ log' = Append(log, Call(cur, surface_style.id, "surface_styles", ok))
     ELSE UNCHANGED <<merged_model, known_surface_styles, log>>
  /\ pos' = pos + 1
  /\ UNCHANGED <<inputs, pc, cur, known_materials, known_styled_items, known_colours,
                 known_presentation_styles, known_history, output_written, exit_status>>

\* 4. materials, keyed by lower-cased name or placeholder
CopyMaterial ==
  /\ InPass("materials")
  /\ LET material == PassList(current_model, "materials")[pos]
         material_name == NameKey(material) IN
     IF material_name \notin known_materials
     THEN \E ok \in CopyOutcomes :
            /\ merged_model' = IF ok THEN add(merged_model, cur, current_model, material)
                               ELSE merged_model
            /\ known_materials' = Record(known_materials, material_name, ok)
            /\ log' = Append(log, Call(cur, material.id, "materials", ok))
     ELSE UNCHANGED <<merged_model, known_materials, log>>
  /\ pos' = pos + 1
  /\ UNCHANGED <<inputs, pc, cur, known_surface_styles, known_styled_items, known_colours,
                 known_presentation_styles, known_history, output_written, exit_status>>

\* 5. styled items
CopyStyledItem ==
  /\ InPass("styled_items")
  /\ LET styled_item == PassList(current_model, "styled_items")[pos] IN
     IF styled_item.id \notin known_styled_items
     THEN \E ok \in CopyOutcomes :
            /\ merged_model' = IF ok THEN add(merged_model, cur, current_model, styled_item)
                               ELSE merged_model
            /\ known_styled_items' = Record(known_styled_items, styled_item.id, ok)
            /\ log' = Append(log, Call(cur, styled_item.id, "styled_items", ok))
     ELSE UNCHANGED <<merged_model, known_styled_items, log>>
  /\ pos' = pos + 1
  /\ UNCHANGED <<inputs, pc, cur, known_materials, known_surface_styles, known_colours,
                 known_presentation_styles, known_history, output_written, exit_status>>

\* (variant: the pass tests the id against what the output model holds)
UnlessIdPresent(e) == \A c \in merged_model : c[2] # e.id

\* is an entity of an unconditional pass passed to add()?  (no membership test)
Unconditional(e) == TRUE

\* 6. material-association relations: add() without any check
CopyMaterialRelation ==
  /\ InPass("material_relations")
  /\ LET material_relation == PassList(current_model, "material_relations")[pos] IN
     IF Unconditional(material_relation)
     THEN \E ok \in CopyOutcomes :
            /\ merged_model' = IF ok THEN add(merged_model, cur, current_model, material_relation)
                               ELSE merged_model
            /\ log' = Append(log, Call(cur, material_relation.id, "material_relations", ok))
     ELSE UNCHANGED <<merged_model, log>>
  /\ pos' = pos + 1
  /\ UNCHANGED <<inputs, pc, cur, known, known_history, output_written, exit_status>>

\* 7. presentation-layer assignments: add() without any check
CopyLayer ==
  /\ InPass("layers")
  /\ LET layer == PassList(current_model, "layers")[pos] IN
     IF Unconditional(layer)
     THEN \E ok \in CopyOutcomes :
            /\ merged_model' = IF ok THEN add(merged_model, cur, current_model, layer)
                               ELSE merged_model
            /\ log' = Append(log, Call(cur, layer.id, "layers", ok))
     ELSE UNCHANGED <<merged_model, log>>
  /\ pos' = pos + 1
  /\ UNCHANGED <<inputs, pc, cur, known, known_history, output_written, exit_status>>

\* 8. every entity whose exact type is not one of the seven is added
SweepEntity ==
  /\ InPass("sweep")
  /\ LET entity == current_model[pos] IN
     IF SweepSkips(entity)
     THEN UNCHANGED <<merged_model, log>>
     ELSE \E ok \in CopyOutcomes :
            /\ merged_model' = IF ok THEN add(merged_model, cur, current_model, entity)
                               ELSE merged_model
            /\ log' = Append(log, Call(cur, entity.id, "sweep", ok))
  /\ pos' = pos + 1
  /\ UNCHANGED <<inputs, pc, cur, known, known_history, output_written, exit_status>>

\* a for loop over the current model is exhausted: the next loop starts
EndPass ==
  /\ \E n \in 1..(Len(Passes) - 1) :
       /\ pc = Passes[n]
       /\ pc' = Passes[n + 1]
  /\ pos > Len(PassList(current_model, pc))
  /\ pos' = 1
  /\ UNCHANGED <<inputs, cur, merged_model, known, log, known_history,
                 output_written, exit_status>>

\* the sweep is exhausted: the next input file
EndFile ==
  /\ pc = "sweep"
  /\ pos > Len(current_model)
  /\ pc' = "file"
  /\ cur' = cur + 1
  /\ pos' = 1
  /\ known_history' = Append(known_history, known)
  /\ UNCHANGED <<inputs, merged_model, known, log, output_written, exit_status>>

\* ---------------------------------------------------------------- writer
\* (variant: a failing write is not caught)
WriteRaises ==
  /\ pc = "write"
  /\ \E ok \in BOOLEAN :
       /\ log' = Append(log, Call(0, 0, "write", ok))
       /\ output_written' = ok
       /\ pc' = IF ok THEN "result_analysis" ELSE "crash"
  /\ UNCHANGED <<inputs, cur, pos, merged_model, known, known_history, exit_status>>

\* merged_model.write(output_file); a failure is printed
Write ==
  /\ pc = "write"
  /\ \E ok \in BOOLEAN :
       /\ log' = Append(log, Call(0, 0, "write", ok))
       /\ output_written' = ok
  /\ pc' = "result_analysis"
  /\ UNCHANGED <<inputs, cur, pos, merged_model, known, known_history, exit_status>>

Next ==
  \/ Main \/ validate_ifc_colors
  \/ BaseMissing \/ BaseOpenFail \/ BaseOpen \/ CopyBase \/ SeedKnown
  \/ LoopEnd \/ SkipMissing \/ OpenFail \/ OpenFile
  \/ CopyColour \/ CopyPresentationStyle \/ CopySurfaceStyle \/ CopyMaterial
  \/ CopyStyledItem \/ CopyMaterialRelation \/ CopyLayer \/ SweepEntity
  \/ EndPass \/ EndFile \/ Write

Spec == Init /\ [][Next]_vars

FairSpec == Spec /\ WF_vars(Next)

\* ------------------------------------------------ vocabulary of the claims
ModelAt(n) == Disk[input_files[n]]

Entities(model) == {model[n] : n \in 1..Len(model)}

\* the entity a copy in the output model was made from
Origin(c) == EntityOf(ModelAt(c[1]), c[2])

DedupPasses == {"colours", "presentation_styles", "surface_styles", "materials", "styled_items"}

IdPasses == {"colours", "presentation_styles", "styled_items"}

InCategory(e, p) == IsA(e.type, PassType[p])

\* per file on disk and pass: the places in the file of the entities of the
\* pass's category
PlacesInCategory ==
  [f \in DOMAIN Disk |->
     [p \in DOMAIN PassType |-> {n \in 1..Len(Disk[f]) : InCategory(Disk[f][n], p)}]]

\* the dedup key of an entity in the category of pass p
KeyOf(e, p) == IF p \in {"surface_styles", "materials"} THEN NameKey(e) ELSE e.id

KnownSet(p) ==
  CASE p = "colours" -> known_colours
    [] p = "presentation_styles" -> known_presentation_styles
    [] p = "surface_styles" -> known_surface_styles
    [] p = "materials" -> known_materials
    [] p = "styled_items" -> known_styled_items

Attempts(n, id, step) == {k \in 1..Len(log) : log[k].file = n /\ log[k].id = id
                                             /\ log[k].step = step}

CopySteps == {"base"} \cup {Passes[n] : n \in 1..Len(Passes)}

\* the merge loop is over
Merged == pc \in {"write", "result_analysis"} \/ (pc = "done" /\ mode = "merge" /\ exit_status = 0)

\* the processing of the n-th input file is over
Processed(n) == n >= 2 /\ n < cur

\* the entity about to be looked at by the running pass
Current == PassList(current_model, pc)[pos]

\* ------------------------------------------------------------------ C1
\* a step copies no secondary entity of a dedup category whose key is known
C1_NoCopyOfKnownKey ==
  \A c \in merged_model' \ merged_model :
    c[1] >= 2 =>
      \A p \in DedupPasses :
        InCategory(Origin(c), p) => KeyOf(Origin(c), p) \notin KnownSet(p)

\* no two copies made from secondary files share a category key
C1_DistinctKeys ==
  \A c, d \in merged_model :
    (c # d /\ c[1] >= 2 /\ d[1] >= 2) =>
      \A p \in DedupPasses :
        (InCategory(Origin(c), p) /\ InCategory(Origin(d), p))
          => KeyOf(Origin(c), p) # KeyOf(Origin(d), p)

\* C1: known-key exclusion.  No step copies into the output model an entity of
\* a secondary file that belongs to a dedup category while its key is in that
\* category's known set, and no two copies made from secondary files share a
\* category key.
C1_KnownKeyExclusion == [][C1_NoCopyOfKnownKey]_vars /\ []C1_DistinctKeys

\* ------------------------------------------------------------------ C2
\* the copies of materials in the output model whose name, lower-cased, is key
MaterialsNamed(key) ==
  {c \in merged_model : /\ InCategory(Origin(c), "materials")
                        /\ Origin(c).name # <<>>
                        /\ lower(Origin(c).name) = key}

\* C2: base priority with case-insensitive names.  When the merge loop is over,
\* for every name that exactly one material of the base file carries (ignoring
\* case), the output model holds exactly one material of that name and it is
\* the copy of the base file's material.
C2_BasePriority ==
  (Merged /\ Len(input_files) >= 2) =>
    \A m \in Entities(ModelAt(1)) :
      (/\ InCategory(m, "materials")
       /\ m.name # <<>>
       /\ <<1, m.id>> \in merged_model
       /\ \A o \in Entities(ModelAt(1)) :
            (InCategory(o, "materials") /\ o.name # <<>> /\ lower(o.name) = lower(m.name))
              => o = m)
      => MaterialsNamed(lower(m.name)) = {<<1, m.id>>}

\* ------------------------------------------------------------------ C3
\* the base import is over
BaseImported == pc \notin {"main", "analyze", "source_analysis", "merge", "base"} /\ cur >= 2

C3_Grows == merged_model \subseteq merged_model'

\* the add() calls made for entities of the base model, in order
BaseCalls == SelectSeq(log, LAMBDA c : c.file = 1 /\ c.step # "open")

C3_BaseAttempted ==
  (pc = "base" \/ BaseImported) =>
    LET calls == BaseCalls IN
    /\ Len(calls) = IF pc = "base" THEN pos - 1 ELSE Len(ModelAt(1))
    /\ \A n \in 1..Len(calls) :
         calls[n].step = "base" /\ calls[n].id = ModelAt(1)[n].id

C3_BaseKept ==
  BaseImported =>
    LET calls == BaseCalls IN
    \A n \in 1..Len(calls) : calls[n].ok => <<1, calls[n].id>> \in merged_model

\* C3: the output model only grows.  No step removes an entity from the output
\* model; every base entity, whatever its type, is passed to add() exactly once;
\* every base entity whose copy succeeded is in the output model from the end
\* of the base import up to and including the write step.
C3_OutputOnlyGrows == [][C3_Grows]_vars /\ [](C3_BaseAttempted /\ C3_BaseKept)

\* a base copy succeeded, a later copy from a secondary file failed, and the
\* write step is reached
C3_Witness ==
  /\ pc = "write"
  /\ \E k \in 1..Len(log) : log[k].step = "base" /\ log[k].ok
  /\ \E k \in 1..Len(log) : log[k].file >= 2 /\ log[k].step \in CopySteps /\ ~log[k].ok
  /\ \E c \in merged_model : c[1] >= 2

\* ------------------------------------------------------------------ C4
\* the known sets before and after the processing of the n-th input file
KnownAfter(n) == known_history[n - 1]

KnownBefore(n) == known_history[n - 2]

\* the copies of dedup-category entities made while the n-th file was processed
AppearanceCopies(n) ==
  {c \in merged_model : c[1] = n /\ \E p \in DedupPasses : InCategory(Origin(c), p)}

\* C4: idempotence of the dedup passes.  If a secondary file is listed twice,
\* its second processing leaves the five known sets as they were and copies no
\* colour, presentation-style assignment, surface style, material or styled
\* item into the output model (stated for the runs in which no copy fails).
C4_Idempotent ==
  \A j, k \in 2..Len(input_files) :
    (/\ j < k
     /\ input_files[j] = input_files[k]
     /\ Openable(input_files[k])
     /\ Processed(k)
     /\ Failures = 0)
    => /\ KnownAfter(k) = KnownBefore(k)
       /\ AppearanceCopies(k) = {}

\* ------------------------------------------------------------------ C5
UnconditionalPasses == {"material_relations", "layers"}

\* C5: unconditional categories are not deduplicated.  Once a secondary file is
\* processed, every material-association relation and every presentation-layer
\* assignment of it has been passed to add() exactly once in its pass for that
\* processing, whatever the output model and the known sets held; a successful
\* copy is in the output model, so a file processed twice has them in duplicate.
C5_Unconditional ==
  LET calls == SelectSeq(log, LAMBDA c : c.step \in UnconditionalPasses) IN
  \A k \in 2..Len(input_files) :
    (Processed(k) /\ Openable(input_files[k])) =>
      \A p \in UnconditionalPasses :
        \A n \in PlacesInCategory[input_files[k]][p] :
          LET id == Disk[input_files[k]][n].id
              attempts == {a \in 1..Len(calls) : /\ calls[a].file = k
                                                 /\ calls[a].id = id
                                                 /\ calls[a].step = p}
          IN /\ Cardinality(attempts) = 1
             /\ \A a \in attempts : calls[a].ok => <<k, id>> \in merged_model

\* the same file was processed twice and both copies of a relation and of a
\* layer assignment are in the output model
C5_Witness ==
  /\ pc = "write"
  /\ \E j, k \in 2..Len(input_files) :
       /\ j < k
       /\ input_files[j] = input_files[k]
       /\ Openable(input_files[k])
       /\ \A p \in UnconditionalPasses :
            \E e \in Entities(ModelAt(k)) :
              /\ InCategory(e, p)
              /\ <<j, e.id>> \in merged_model
              /\ <<k, e.id>> \in merged_model

\* ------------------------------------------------------------------ C6
Opened(n) == \E k \in 1..Len(log) : log[k].file = n /\ log[k].step = "open" /\ log[k].ok

WriteAttempted == \E k \in 1..Len(log) : log[k].step = "write"

C6_SkipStep ==
  (pc = "file" /\ cur <= Len(input_files) /\ ~Openable(input_files[cur])) =>
    /\ merged_model' = merged_model
    /\ known' = known
    /\ pc' = "file"
    /\ cur' = cur + 1

C6_RunCompletes ==
  (pc = "done" /\ mode = "merge" /\ Openable(input_files[1])) =>
    /\ exit_status = 0
    /\ WriteAttempted
    /\ \A n \in 2..Len(input_files) : Openable(input_files[n]) <=> Opened(n)

\* C6: a secondary file that is missing or cannot be opened is skipped as a
\* whole.  The step that meets it changes neither the output model nor a known
\* set and goes on to the next file of the list; when the run is over every
\* openable secondary file was opened, the write was attempted and the exit
\* status is 0.
C6_SecondarySkipped == [][C6_SkipStep]_vars /\ []C6_RunCompletes

\* file 2 of 3 cannot be opened, file 3 was processed, the run succeeded
C6_Witness ==
  /\ pc = "done"
  /\ exit_status = 0
  /\ Len(input_files) = 3
  /\ ~Openable(input_files[2])
  /\ Opened(3)
  /\ \E c \in merged_model : c[1] = 3
  /\ WriteAttempted

\* ------------------------------------------------------------------ C7
\* C7: if the base file is missing or cannot be opened, the run never reaches
\* a secondary file or the write step, no output file is produced, and the
\* process ends with exit status 1.
C7_BaseFatal ==
  (mode = "merge" /\ ~Openable(input_files[1])) =>
    /\ pc \in {"main", "source_analysis", "merge", "done"}
    /\ pc = "done" => exit_status = 1
    /\ exit_status \in {-1, 1}
    /\ ~output_written
    /\ merged_model = {}
    /\ \A k \in 1..Len(log) : log[k].step # "write" /\ log[k].file < 2

\* the base path does not exist, secondary files are listed, the run is over
C7_Witness ==
  /\ mode = "merge"
  /\ ~exists(input_files[1])
  /\ Len(input_files) > 1
  /\ \E n \in 2..Len(input_files) : Openable(input_files[n])
  /\ pc = "done"
  /\ exit_status = 1

\* ------------------------------------------------------------------ C8
\* the step is a call of add() that fails
FailedCopy ==
  /\ Len(log') = Len(log) + 1
  /\ log'[Len(log')].step \in CopySteps
  /\ ~log'[Len(log')].ok

C8_FailureStep ==
  FailedCopy =>
    /\ merged_model' = merged_model
    /\ known' = known
    /\ pc' = pc
    /\ cur' = cur
    /\ pos' = pos + 1

\* what a finished run has attempted, whatever failed on the way
C8_AllAttempted ==
  (pc = "done" /\ mode = "merge" /\ Openable(input_files[1])) =>
    /\ exit_status = 0
    /\ WriteAttempted
    /\ \A e \in Entities(ModelAt(1)) : Attempts(1, e.id, "base") # {}
    /\ \A n \in 2..Len(input_files) :
         Openable(input_files[n]) =>
           /\ Opened(n)
           /\ \A e \in Entities(ModelAt(n)) :
                /\ \A p \in DedupPasses :
                     InCategory(e, p) =>
                       \/ KeyOf(e, p) \in KnownSet(p)
                       \/ \E a \in Attempts(n, e.id, p) : ~log[a].ok
                /\ \A p \in UnconditionalPasses :
                     InCategory(e, p) => Attempts(n, e.id, p) # {}
                /\ ~SweepSkips(e) => Attempts(n, e.id, "sweep") # {}

\* C8: entity-level failure isolation.  A failing add() leaves the output model
\* and the five known sets as they were and the loop goes on with the next
\* entity of the same pass; a finished run has opened every openable file,
\* attempted every entity its passes select and attempted the write.
C8_FailureIsolation == [][C8_FailureStep]_vars /\ []C8_AllAttempted

\* a copy failed in a pass of a secondary file; the same pass, a later pass of
\* that file, a later file and the write step went on after it
C8_Witness ==
  /\ pc = "done"
  /\ exit_status = 0
  /\ WriteAttempted
  /\ \E a \in 1..Len(log) :
       /\ log[a].step \in DedupPasses
       /\ ~log[a].ok
       /\ \E b \in (a + 1)..Len(log) :
            log[b].step = log[a].step /\ log[b].file = log[a].file /\ log[b].ok
       /\ \E c \in (a + 1)..Len(log) :
            log[c].step \in CopySteps \ {log[a].step} /\ log[c].file = log[a].file
       /\ \E d \in (a + 1)..Len(log) :
            log[d].step = "open" /\ log[d].file > log[a].file /\ log[d].ok

\* ------------------------------------------------------------- C9, C10
\* the key the running pass finds known was recorded for this very entity: by
\* an earlier processing of the same path (seeded from it as the base, or
\* copied from it by the same pass)
RecordedForSameEntity(e, p) ==
  \E j \in 1..(cur - 1) :
    /\ input_files[j] = input_files[cur]
    /\ \/ j = 1
       \/ \E a \in Attempts(j, e.id, p) : log[a].ok

\* C9: unnamed materials and surface styles of different files never collide on
\* the placeholder key.  Whenever the surface-style or material pass finds the
\* key of an unnamed entity in the known set, that key was recorded for the
\* same entity of the same file.
C9_PlaceholdersDistinct ==
  \A p \in {"surface_styles", "materials"} :
    (InPass(p) /\ Current.name = <<>> /\ KeyOf(Current, p) \in KnownSet(p))
      => RecordedForSameEntity(Current, p)

\* C10: an identifier recorded from one file never decides about an entity of
\* another file.  Whenever the colour, presentation-style or styled-item pass
\* finds the id of an entity in the known set, that id was recorded for the
\* same entity of the same file.
C10_IdsNotSharedAcrossFiles ==
  \A p \in IdPasses :
    (InPass(p) /\ KeyOf(Current, p) \in KnownSet(p))
      => RecordedForSameEntity(Current, p)

\* ----------------------------------------------------------------- C11
CountedTypes == {"IfcMaterial", "IfcSurfaceStyle", "IfcStyledItem"}

\* len(model.by_type(t)) of the output model
CountInOutput(t) == Cardinality({c \in merged_model : IsA(Origin(c).type, t)})

\* len(base_model.by_type(t))
CountInBase(t) == Len(by_type(ModelAt(1), t))

\* the output file was written from the output model
Written == pc \in {"result_analysis", "done"} /\ output_written

\* the base entities of type t whose add() did not fail
BaseNotFailed(t) ==
  {e \in Entities(ModelAt(1)) :
     IsA(e.type, t) /\ \A a \in Attempts(1, e.id, "base") : log[a].ok}

\* C11 as claimed: the written output model has at least as many materials,
\* surface styles and styled items as the base file, for every input list.
C11_CountsAtLeastBase ==
  Written => \A t \in CountedTypes : CountInOutput(t) >= CountInBase(t)

\* C11 as amended: the written output model has at least as many materials,
\* surface styles and styled items as the base file has entities of that type
\* whose copy did not fail (the base file's whole count when no base copy failed).
C11_CountsAtLeastCopiedBase ==
  Written =>
    \A t \in CountedTypes :
      /\ CountInOutput(t) >= Cardinality(BaseNotFailed(t))
      /\ (\A a \in 1..Len(log) : log[a].step = "base" => log[a].ok)
           => CountInOutput(t) >= CountInBase(t)

\* the output was written although the copy of a base material, style or
\* styled item had failed
C11_Witness ==
  /\ Written
  /\ \E t \in CountedTypes :
       /\ Cardinality(BaseNotFailed(t)) < CountInBase(t)
       /\ CountInOutput(t) >= Cardinality(BaseNotFailed(t))
       /\ CountInOutput(t) < CountInBase(t)

\* ----------------------------------------------------------------- C12
\* C12: the analyze command is read-only and always succeeds.  In a run of
\* --analyze, on any path, the script is only ever in the dispatch, in the
\* analysis or at its end; no output model and no known set is built, no file
\* is written, the only library call is the analysis, and the exit status is 0.
C12_AnalyzeReadOnly ==
  mode = "analyze" =>
    /\ pc \in {"main", "analyze", "done"}
    /\ merged_model = {}
    /\ known = <<{}, {}, {}, {}, {}>>
    /\ ~output_written
    /\ \A a \in 1..Len(log) : log[a].step = "analyze"
    /\ exit_status \in {-1, 0}
    /\ pc = "done" => (exit_status = 0 /\ Len(log) = 1)

\* an analysis of a path that cannot be opened has ended
C12_Witness ==
  /\ mode = "analyze"
  /\ ~Openable(input_files[1])
  /\ pc = "done"
  /\ exit_status = 0
  /\ Len(log) = 1
  /\ ~log[1].ok

\* ----------------------------------------------------------------- C13
\* the place of an entity's type in the fixed order: 1..7 for the seven
\* categories (subtypes included, as by_type selects them), 8 for any other type
Rank(e) ==
  IF \E n \in 1..7 : IsA(e.type, PassType[Passes[n]])
  THEN CHOOSE n \in 1..7 : IsA(e.type, PassType[Passes[n]])
  ELSE 8

\* the add() calls made for entities of secondary files, in order
SecondaryCalls == SelectSeq(log, LAMBDA c : c.file >= 2 /\ c.step \in CopySteps)

\* C13: fixed pass order per secondary file.  Of two copy attempts for entities
\* of secondary files, the earlier one is for a file listed no later, and within
\* one file for an entity whose type comes no later in the order colours,
\* presentation-style assignments, surface styles, materials, styled items,
\* material relations, layer assignments, other types.
C13_FixedPassOrder ==
  LET calls == SecondaryCalls IN
  \A a, b \in 1..Len(calls) :
    a < b =>
      /\ calls[a].file <= calls[b].file
      /\ calls[a].file = calls[b].file =>
           Rank(EntityOf(ModelAt(calls[a].file), calls[a].id))
             <= Rank(EntityOf(ModelAt(calls[b].file), calls[b].id))

\* ----------------------------------------------------------------- C14
\* a colour, style, material or styled item
Appearance(e) == \E p \in DedupPasses : InCategory(e, p)

\* C14: when the final sweep is about to copy an entity that belongs to none of
\* the seven categories, every appearance entity it references, directly or
\* through other entities, is already in the output model (stated for the runs
\* in which no copy fails).
C14_AppearanceBeforeStructure ==
  (InPass("sweep") /\ Rank(Current) = 8 /\ Failures = 0) =>
    \A id \in Closure(current_model, {Current.id}) :
      Appearance(EntityOf(current_model, id)) => <<cur, id>> \in merged_model

\* ----------------------------------------------------------------- C15
\* the add() calls made for one entity during one processing of its file
CallsFor(n, id) == {k \in 1..Len(log) : log[k].file = n /\ log[k].id = id
                                        /\ log[k].step \in CopySteps}

\* C15: no double insertion by the final sweep.  During one processing of a
\* secondary file no entity is passed to add() more than once, and the sweep
\* passes to add() only entities that belong to none of the seven categories,
\* subtypes included.
C15_NoDoubleInsertion ==
  \A n \in 2..Len(input_files) :
    (n <= cur /\ Openable(input_files[n])) =>
      \A e \in Entities(ModelAt(n)) :
        /\ Cardinality(CallsFor(n, e.id)) <= 1
        /\ Attempts(n, e.id, "sweep") # {} => Rank(e) = 8

\* ----------------------------------------------------------------- C16
\* the base entities selected by type t
BaseOfType(t) == {e \in Entities(ModelAt(1)) : IsA(e.type, t)}

\* the known sets were just built and no secondary file was looked at yet
Seeded == pc = "file" /\ cur = 2

\* C16: seeding of the known sets.  Right after the base import the known sets
\* are the lower-cased names of the named base materials and of the named base
\* surface styles and the ids of the base styled items, colours and
\* presentation-style assignments, whichever base copies failed; no key is
\* derived from an unnamed material or surface style.
C16_Seeding ==
  Seeded =>
    /\ known_materials =
         {lower(e.name) : e \in {x \in BaseOfType("IfcMaterial") : x.name # <<>>}}
    /\ known_surface_styles =
         {lower(e.name) : e \in {x \in BaseOfType("IfcSurfaceStyle") : x.name # <<>>}}
    /\ known_styled_items = {e.id : e \in BaseOfType("IfcStyledItem")}
    /\ known_colours = {e.id : e \in BaseOfType("IfcColourRgb")}
    /\ known_presentation_styles = {e.id : e \in BaseOfType("IfcPresentationStyleAssignment")}
    /\ \A e \in BaseOfType("IfcMaterial") :
         (e.name = <<>> /\ \A x \in BaseOfType("IfcMaterial") : lower(x.name) # Placeholder(e))
           => Placeholder(e) \notin known_materials
    /\ \A e \in BaseOfType("IfcSurfaceStyle") :
         (e.name = <<>> /\ \A x \in BaseOfType("IfcSurfaceStyle") : lower(x.name) # Placeholder(e))
           => Placeholder(e) \notin known_surface_styles

\* the sets were seeded from a base file that has a named and an unnamed
\* material, after the copy of the named one had failed
C16_Witness ==
  /\ Seeded
  /\ \E e \in BaseOfType("IfcMaterial") : e.name = <<>>
  /\ \E e \in BaseOfType("IfcMaterial") :
       /\ e.name # <<>>
       /\ \E a \in Attempts(1, e.id, "base") : ~log[a].ok
       /\ <<1, e.id>> \notin merged_model
       /\ lower(e.name) \in known_materials

\* ----------------------------------------------------------------- C17
NamePasses == {"surface_styles", "materials"}

\* the name of an entity ignoring case, or the placeholder of an unnamed one
CaselessName(e) == IF e.name = <<>> THEN Placeholder(e) ELSE lower(e.name)

\* the names a file defines in the category of pass p, ignoring case
NamesIn(model, p) ==
  {lower(model[n].name) : n \in {k \in 1..Len(model) : /\ InCategory(model[k], p)
                                                      /\ model[k].name # <<>>}}

\* the same per file on disk; a base file that cannot be opened defines none
BaseNamesAt ==
  [f \in Paths |-> [p \in NamePasses |-> IF f \in DOMAIN Disk THEN NamesIn(Disk[f], p) ELSE {}]]

\* the add() calls of pass p for entities of secondary files, in order
PassCalls(p) == SelectSeq(log, LAMBDA c : c.file >= 2 /\ c.step = p)

CalledEntity(c) == EntityOf(ModelAt(c.file), c.id)

IndexIn(model, id) == CHOOSE n \in 1..Len(model) : model[n].id = id

IdsOf(model) == {model[n].id : n \in 1..Len(model)}

\* per file on disk and entity id: the caseless name, and the place in the file
CaselessNameAt ==
  [f \in DOMAIN Disk |-> [i \in IdsOf(Disk[f]) |-> CaselessName(EntityOf(Disk[f], i))]]

PlaceAt == [f \in DOMAIN Disk |-> [i \in IdsOf(Disk[f]) |-> IndexIn(Disk[f], i)]]

\* C17: first listed wins among the secondary files.  In the surface-style and
\* the material pass an entity is passed to add() only if the base file does not
\* define its name (ignoring case) and no earlier copy by the pass of an entity
\* of the same name succeeded, in an earlier file or earlier in the same file;
\* and an entity of a processed file is left out by the pass only if the base
\* file defines its name or such an earlier copy succeeded.
C17_FirstListedWins ==
  \A p \in NamePasses :
    LET calls == PassCalls(p)
        base == BaseNamesAt[input_files[1]][p]
        name == [a \in 1..Len(calls) |-> CaselessNameAt[input_files[calls[a].file]][calls[a].id]]
        place == [a \in 1..Len(calls) |-> PlaceAt[input_files[calls[a].file]][calls[a].id]]
    IN
    /\ \A a \in 1..Len(calls) :
         /\ name[a] \notin base
         /\ \A b \in 1..(a - 1) : name[b] = name[a] => ~calls[b].ok
    /\ \A n \in 2..Len(input_files) :
         (Processed(n) /\ Openable(input_files[n])) =>
           \A k \in PlacesInCategory[input_files[n]][p] :
             LET id == Disk[input_files[n]][k].id IN
             \/ \E a \in 1..Len(calls) : calls[a].file = n /\ calls[a].id = id
             \/ CaselessNameAt[input_files[n]][id] \in base
             \/ \E b \in 1..Len(calls) :
                  /\ calls[b].ok
                  /\ name[b] = CaselessNameAt[input_files[n]][id]
                  /\ \/ calls[b].file < n
                     \/ calls[b].file = n /\ place[b] < k

\* two secondary files define a material name the base file does not define:
\* the copy from the first listed failed and the second file's material was
\* copied by the pass
C17_Witness ==
  /\ pc = "write"
  /\ LET calls == PassCalls("materials") IN
     \E a, b \in 1..Len(calls) :
       /\ a < b
       /\ calls[a].file < calls[b].file
       /\ ~calls[a].ok
       /\ calls[b].ok
       /\ CalledEntity(calls[a]).name # <<>>
       /\ CaselessName(CalledEntity(calls[a])) = CaselessName(CalledEntity(calls[b]))

\* ----------------------------------------------------------------- C18
\* the opening of the secondary files and the writes, in order
FileCalls == SelectSeq(log, LAMBDA c : (c.file >= 2 /\ c.step = "open") \/ c.step = "write")

C18_OrderedOnce ==
  /\ pc # "crash"
  /\ LET calls == FileCalls IN
     \A a, b \in 1..Len(calls) :
       a < b => /\ calls[a].step = "open"
                /\ calls[b].step = "open" => calls[a].file < calls[b].file
  /\ \A a \in 1..Len(log) :
       log[a].step = "write" =>
         \A b \in (a + 1)..Len(log) : log[b].step = "analyze"
  /\ (pc = "done" /\ mode = "merge") =>
       \/ /\ exit_status = 1
          /\ ~Openable(input_files[1])
          /\ ~WriteAttempted
          /\ known_history = <<>>
       \/ /\ exit_status = 0
          /\ Openable(input_files[1])
          /\ Cardinality({a \in 1..Len(log) : log[a].step = "write"}) = 1
          /\ cur = Len(input_files) + 1
          /\ Len(known_history) = Len(input_files) - 1
          /\ \A n \in 2..Len(input_files) :
               Cardinality({a \in 1..Len(log) : log[a].file = n /\ log[a].step = "open"})
                 = IF exists(input_files[n]) THEN 1 ELSE 0

\* how far the script has got: every step moves it forward
Progress ==
  CASE pc = "main" -> 0
    [] pc \in {"analyze", "source_analysis"} -> 1
    [] pc = "merge" -> 2
    [] pc = "base" -> 10 + pos
    [] pc = "file" -> 100 * cur
    [] pc \in CopySteps \ {"base"} ->
         100 * cur + 10 * (CHOOSE n \in 1..Len(Passes) : Passes[n] = pc) + pos
    [] pc = "write" -> 100 * (MaxSecondary + 3)
    [] pc = "result_analysis" -> 100 * (MaxSecondary + 3) + 1
    [] OTHER -> 100 * (MaxSecondary + 3) + 2

\* C18: the run always finishes.  Every step moves the script forward along a
\* bounded scale and a step is possible wherever the script has not ended, so
\* no run goes on for ever or stops early; a merge run either exits with status
\* 1 during the base import, or has handled each secondary file once in listed
\* order and then attempted the write once, after the last file, and ends with
\* status 0 also when the write failed.
C18_Finishes ==
  /\ [][Progress' > Progress]_vars
  /\ [](pc # "done" => ENABLED Next)
  /\ []C18_OrderedOnce

\* the same under fair scheduling: the end of the script is reached
C18_EndReached == <>(pc = "done")

\* a merge of three files ended after a failing write
C18_Witness ==
  /\ pc = "done"
  /\ mode = "merge"
  /\ exit_status = 0
  /\ Len(input_files) = 3
  /\ \E a \in 1..Len(log) : log[a].step = "write" /\ ~log[a].ok
  /\ ~output_written

====
